---- MODULE Spec2Model ----
(***************************************************************************)
(* Model of src/backend.py: the pairing / player-directory backend.        *)
(*                                                                         *)
(* Every HTTP handler runs in its own SQLAlchemy session.  A query reads   *)
(* the committed rows (autocommit read on SQLite, READ COMMITTED on        *)
(* PostgreSQL); the pending INSERT/UPDATEs of a session are flushed and    *)
(* committed as one transaction, in which the database enforces the        *)
(* unique / primary-key constraints declared on the models.  A handler is  *)
(* therefore a sequence of steps: its reads, then its commit.  An          *)
(* exception the handler does not catch ends the request with HTTP 500     *)
(* and the session is rolled back.  The response of a finished handler is  *)
(* held in `response` until after_request hands it to the client.          *)
(* Random ids (secrets.token_urlsafe) are fresh; names, locations and      *)
(* password hashes are carried through unchanged and are left out.         *)
(***************************************************************************)
EXTENDS Integers, Sequences, FiniteSets, TLC

\* ---- bounds of the model ------------------------------------------------
Emails == {"alice@x.com", "bob@x.com"}
Devices == {"D1", "D2"}
Codes == {"123456", "654321"}
Urls == {"http://a"}
Workers == {"w1", "w2"}
Backends == {"sqlite", "postgresql"}
MaxReq == 2          \* register-pairing requests accepted in one behaviour
MaxTime == 15        \* the clock stops here
TickStep == 5        \* minutes per clock step

\* ---- program constants --------------------------------------------------
JWT_EXPIRY_HOURS == 720
REFRESH_INTERVAL == 300
TEN_MINUTES == 10
None == "None"
SECRET_KEY == "SECRET_KEY"
DEFAULT_CONTENT == "data:text/html,default"

VARIABLES
    backend,            \* DATABASE_URL: which engine the deployment uses
    users,              \* table users
    players,            \* table players
    pairings,           \* table pairings (legacy, keyed by pairing_code)
    pairing_requests,   \* table pairing_requests
    reqSeq,             \* rows ever inserted into pairing_requests
    now,                \* datetime.utcnow(), in minutes
    session,            \* per worker: the request it handles and its position
    response            \* the HTTP response the last step sent, if it sent one

vars == <<backend, users, players, pairings, pairing_requests, reqSeq, now,
          session, response>>

db == <<users, players, pairings, pairing_requests, reqSeq>>

Idle == [pc |-> "idle"]

NoResponse == [op |-> None]

\* worker w is free to take up a request (the previous response has left)
Ready(w) == response = NoResponse /\ session[w].pc = "idle"

\* worker w is inside handler op, at position pc
Pending(w, pc, op) ==
    response = NoResponse /\ session[w].pc = pc /\ session[w].op = op

\* the handler of worker w returns: `call` is what it was called with (and
\* what it read), `resp` the status and body it sends
Reply(w, op, call, resp) ==
    /\ session' = [session EXCEPT ![w] = Idle]
    /\ response' = [op |-> op, call |-> call, resp |-> resp]

\* the handler of worker w has read and has yet to write
Await(w, locals) ==
    /\ session' = [session EXCEPT ![w] = locals]
    /\ response' = NoResponse

Max(S) == CHOOSE m \in S : \A x \in S : x <= m

\* ---- tokens -------------------------------------------------------------
\* lines 90-97 with datetime.utcnow() = at: the JWT is the payload plus the
\* key that signed it
token_issued_at(user_id, org_id, key, at) ==
    [user_id |-> user_id, org_id |-> org_id,
     exp |-> at + JWT_EXPIRY_HOURS * 60, iat |-> at, key |-> key]

\* lines 90-97
generate_token(user_id, org_id, key) == token_issued_at(user_id, org_id, key, now)

\* a string that is no JWT (or a missing Authorization header)
NoToken == [user_id |-> None, org_id |-> None, exp |-> 0, iat |-> 0, key |-> None]

\* jwt.decode without the validation of exp
verify_token_NoExpiry(token) ==
    IF token.key = SECRET_KEY
    THEN [valid |-> TRUE, user_id |-> token.user_id, org_id |-> token.org_id]
    ELSE [valid |-> FALSE, user_id |-> None, org_id |-> None]

\* lines 100-104: the payload, or None (here valid = FALSE).  jwt.decode
\* checks the HS256 signature and raises ExpiredSignatureError once
\* exp <= now.
verify_token(token) ==
    IF token.key = SECRET_KEY /\ now < token.exp
    THEN [valid |-> TRUE, user_id |-> token.user_id, org_id |-> token.org_id]
    ELSE [valid |-> FALSE, user_id |-> None, org_id |-> None]

\* Bearer tokens a client can present: one the server issued to a registered
\* user (register / login, lines 153 and 191), a token signed with another
\* key, or no token at all.
ClientTokens ==
    {[user_id |-> u.id, org_id |-> u.org_id,
      exp |-> JWT_EXPIRY_HOURS * 60, iat |-> 0, key |-> SECRET_KEY] : u \in users}
    \cup {[user_id |-> "user-1", org_id |-> "org-1",
           exp |-> JWT_EXPIRY_HOURS * 60, iat |-> 0, key |-> "forged"],
          NoToken}

\* ---- POST /api/auth/register -------------------------------------------
\* lines 126-135: validation and the existence check
register(w, email, password) ==
    /\ Ready(w)
    /\ LET call == [email |-> email, password |-> password]
       IN IF email = None \/ password = None
          THEN Reply(w, "register", call, [status |-> 400, user_id |-> None])
          ELSE IF \E u \in users : u.email = email
          THEN Reply(w, "register", call, [status |-> 409, user_id |-> None])
          ELSE Await(w, [pc |-> "commit", op |-> "register", call |-> call])
    /\ UNCHANGED <<backend, db, now>>

\* users.email is UNIQUE (line 30): True iff the INSERT is accepted
UserInsertOk(email) == ~ \E u \in users : u.email = email

\* lines 137-169: INSERT and commit; an IntegrityError is not caught
register_commit(w) ==
    /\ Pending(w, "commit", "register")
    /\ LET call == session[w].call
           n == Cardinality(users) + 1
           user_id == "user-" \o ToString(n)
           org_id == "org-" \o ToString(n)
       IN IF UserInsertOk(call.email)
          THEN /\ users' = users \cup
                     {[id |-> user_id, email |-> call.email, org_id |-> org_id]}
               /\ Reply(w, "register", call,
                        [status |-> 201, user_id |-> user_id, org_id |-> org_id,
                         token |-> generate_token(user_id, org_id, SECRET_KEY)])
          ELSE /\ users' = users
               /\ Reply(w, "register", call, [status |-> 500, user_id |-> None])
    /\ UNCHANGED <<backend, players, pairings, pairing_requests, reqSeq, now>>

\* ---- POST /api/public/register-pairing -----------------------------------
\* line 65: the id of a new pairing_requests row.  PostgreSQL draws it from
\* a sequence; SQLite takes the largest rowid still in the table plus one
\* (INTEGER PRIMARY KEY without AUTOINCREMENT).
NewRequestId(rows) ==
    IF backend = "postgresql" THEN reqSeq + 1
    ELSE IF rows = {} THEN 1
    ELSE Max({r.id : r \in rows}) + 1

\* bulk DELETEs without their filters
StaleRequests_All(device_id, pairing_code) == pairing_requests

\* lines 455-456: the rows the two bulk DELETEs match
StaleRequests(device_id, pairing_code) ==
    {r \in pairing_requests :
        r.device_id = device_id \/ r.pairing_code = pairing_code}

\* lines 455-464 as one transaction: the deletes `del` (row ids) take
\* effect and the new waiting row is inserted
InsertRequest(del, device_id, pairing_code) ==
    LET kept == {r \in pairing_requests : r.id \notin del}
    IN /\ pairing_requests' = kept \cup
            {[id |-> NewRequestId(kept), device_id |-> device_id,
              pairing_code |-> pairing_code, status |-> "waiting"]}
       /\ reqSeq' = reqSeq + 1

\* PostgreSQL row locks: the pairing_requests rows an uncommitted UPDATE of
\* pair-device holds, and those an uncommitted DELETE of register-pairing
\* holds.  A statement that touches a locked row waits for the commit.
RowsUpdating ==
    {session[w].req.id : w \in {v \in Workers : session[v].pc = "flushed"}}

RowsDeleting ==
    UNION {session[w].del : w \in {v \in Workers :
        session[v].pc = "commit" /\ session[v].op = "register_pairing"}}

RegistrationsInFlight ==
    Cardinality({w \in Workers :
        session[w].pc = "commit" /\ session[w].op = "register_pairing"})

\* lines 446-464.  On SQLite the first DELETE takes the database write lock,
\* which is held until the commit: deletes and insert are one step.  On
\* PostgreSQL (READ COMMITTED) each DELETE removes the rows committed when it
\* runs; rows committed by others before this session's commit survive.
register_pairing(w, device_id, pairing_code) ==
    /\ Ready(w)
    /\ LET args == [device_id |-> device_id, pairing_code |-> pairing_code]
       IN IF device_id = None \/ pairing_code = None
          THEN /\ Reply(w, "register_pairing", args, [status |-> 400])
               /\ UNCHANGED <<pairing_requests, reqSeq>>
          ELSE /\ IF backend = "sqlite"
                  THEN /\ InsertRequest(
                            {r.id : r \in StaleRequests(device_id, pairing_code)},
                            device_id, pairing_code)
                       /\ Reply(w, "register_pairing", args, [status |-> 201])
                  ELSE /\ RowsUpdating \cap
                            {r.id : r \in StaleRequests(device_id, pairing_code)} = {}
                       /\ Await(w, [pc |-> "commit", op |-> "register_pairing",
                             args |-> args,
                             del |-> {r.id : r \in
                                 StaleRequests(device_id, pairing_code)}])
                       /\ UNCHANGED <<pairing_requests, reqSeq>>
    /\ UNCHANGED <<backend, users, players, pairings, now>>

\* lines 458-469 on PostgreSQL: INSERT and COMMIT
register_pairing_commit(w) ==
    /\ Pending(w, "commit", "register_pairing")
    /\ InsertRequest(session[w].del, session[w].args.device_id,
                     session[w].args.pairing_code)
    /\ Reply(w, "register_pairing", session[w].args, [status |-> 201])
    /\ UNCHANGED <<backend, users, players, pairings, now>>

\* no row: what .first() returns when nothing matches
NoRequest == [id |-> 0, device_id |-> None, pairing_code |-> None, status |-> None]

\* ---- POST /api/admin/pair-device --------------------------------------------
\* lines 288-326: authentication, validation and the look-up of the request.
\* .first() has no ORDER BY: any waiting row with the code may be returned.
admin_pair_device(w, token, pairing_code) ==
    /\ Ready(w)
    /\ LET payload == verify_token(token)
           args == [pairing_code |-> pairing_code, req |-> NoRequest]
           waiting == {r \in pairing_requests :
                          r.pairing_code = pairing_code /\ r.status = "waiting"}
           already_paired == \E r \in pairing_requests :
                          r.pairing_code = pairing_code /\ r.status = "paired"
       IN IF ~payload.valid
          THEN Reply(w, "admin_pair_device", args,
                     [status |-> 401, player_id |-> 0])
          ELSE IF pairing_code = None
          THEN Reply(w, "admin_pair_device", args,
                     [status |-> 400, player_id |-> 0,
                      error |-> "pairing_code is required"])
          ELSE IF waiting = {}
          THEN Reply(w, "admin_pair_device", args,
                     [status |-> 400, player_id |-> 0,
                      error |-> IF already_paired
                                THEN "This device is already paired"
                                ELSE "Invalid or expired pairing code"])
          ELSE \E req \in waiting :
                  Await(w, [pc |-> "commit", op |-> "admin_pair_device",
                            pairing_code |-> pairing_code, req |-> req,
                            org_id |-> payload.org_id])
    /\ UNCHANGED <<backend, db, now>>

\* players without the UNIQUE constraint on device_id
PlayerInsertOk_NoUnique(device_id) == TRUE

\* players.device_id is UNIQUE (line 41): TRUE iff the INSERT is accepted
PlayerInsertOk(device_id) == ~ \E p \in players : p.device_id = device_id

\* line 345: UPDATE pairing_requests SET status = 'paired' WHERE id = :id
\* must match a row, otherwise the flush raises StaleDataError
RequestUpdateOk(id) == \E r \in pairing_requests : r.id = id

\* pairings.pairing_code is the primary key (line 54): TRUE iff an INSERT
\* of a row for the code is accepted
PairingInsertOk(pairing_code) ==
    ~ \E q \in pairings : q.pairing_code = pairing_code

\* lines 348-357 without line 353
LegacyPairing_NotPaired(pairing_code, player_id, device_id, org_id) ==
    [pairing_code |-> pairing_code, paired |-> FALSE, player_id |-> player_id,
     device_id |-> device_id, org_id |-> org_id]

\* lines 348-357: the legacy Pairing row of the code as pair-device leaves it
LegacyPairing(pairing_code, player_id, device_id, org_id) ==
    [pairing_code |-> pairing_code, paired |-> TRUE, player_id |-> player_id,
     device_id |-> device_id, org_id |-> org_id]

\* no row: what line 348 finds when the code has no Pairing row
NoPairing == [pairing_code |-> None, paired |-> FALSE, player_id |-> 0,
              device_id |-> None, org_id |-> None]

\* line 348: the Pairing row of the code among the committed rows
LoadPairing(pairing_code) ==
    IF PairingInsertOk(pairing_code) THEN NoPairing
    ELSE CHOOSE q \in pairings : q.pairing_code = pairing_code

\* lines 353-357 and the flush of line 359 for a row that line 348 loaded:
\* the UPDATE sets the columns whose new value differs from the loaded one,
\* the other columns of the stored row stay as they are
UpdatePairing(stored, loaded, new) ==
    [pairing_code |-> stored.pairing_code,
     paired |-> IF new.paired # loaded.paired THEN new.paired ELSE stored.paired,
     player_id |-> IF new.player_id # loaded.player_id
                   THEN new.player_id ELSE stored.player_id,
     device_id |-> IF new.device_id # loaded.device_id
                   THEN new.device_id ELSE stored.device_id,
     org_id |-> IF new.org_id # loaded.org_id THEN new.org_id ELSE stored.org_id]

\* lines 326-348 on PostgreSQL.  The query of line 348 autoflushes the
\* session: INSERT players and UPDATE pairing_requests run and keep their
\* row locks, then the Pairing row of the code is loaded from the
\* committed rows.  A statement that meets a row another transaction holds
\* waits for it.  A failed flush is not caught: 500, nothing written.
admin_pair_device_flush(w) ==
    /\ backend = "postgresql"
    /\ Pending(w, "commit", "admin_pair_device")
    /\ LET l == session[w]
       IN /\ l.req.id \notin RowsDeleting
          /\ \A v \in Workers :
                session[v].pc = "flushed" => session[v].req.device_id # l.req.device_id
          /\ IF PlayerInsertOk(l.req.device_id) /\ RequestUpdateOk(l.req.id)
             THEN Await(w, [pc |-> "flushed", op |-> "admin_pair_device",
                            pairing_code |-> l.pairing_code, req |-> l.req,
                            org_id |-> l.org_id,
                            pairing_info |-> LoadPairing(l.pairing_code)])
             ELSE Reply(w, "admin_pair_device",
                        [pairing_code |-> l.pairing_code, req |-> l.req],
                        [status |-> 500, player_id |-> 0])
    /\ UNCHANGED <<backend, db, now>>

\* lines 326-364: INSERT players, UPDATE pairing_requests, the INSERT or
\* UPDATE of the legacy Pairing row, and the commit.  On SQLite the flush
\* takes the database write lock, so that all of it is one step; on
\* PostgreSQL the step completes a flushed transaction, with the Pairing
\* row as line 348 loaded it.  No exception is caught: a failed flush or
\* commit ends the request with 500 and nothing is written.
admin_pair_device_commit(w) ==
    /\ \/ backend = "sqlite" /\ Pending(w, "commit", "admin_pair_device")
       \/ Pending(w, "flushed", "admin_pair_device")
    /\ LET req == session[w].req
           pairing_code == session[w].pairing_code
           org_id == session[w].org_id
           player_id == Cardinality(players) + 1
           pairing_info == IF session[w].pc = "flushed"
                           THEN session[w].pairing_info
                           ELSE LoadPairing(pairing_code)
           new == LegacyPairing(pairing_code, player_id, req.device_id, org_id)
       IN IF /\ PlayerInsertOk(req.device_id) /\ RequestUpdateOk(req.id)
             /\ pairing_info = NoPairing => PairingInsertOk(pairing_code)
          THEN /\ players' = players \cup
                     {[player_id |-> player_id, device_id |-> req.device_id,
                       org_id |-> org_id, status |-> "online",
                       last_seen |-> now, content_url |-> None,
                       pairing_code |-> pairing_code]}
               /\ pairing_requests' =
                     {IF r.id = req.id THEN [r EXCEPT !.status = "paired"] ELSE r :
                        r \in pairing_requests}
               /\ pairings' =
                     {q \in pairings : q.pairing_code # pairing_code} \cup
                     {IF pairing_info = NoPairing THEN new
                      ELSE UpdatePairing(LoadPairing(pairing_code), pairing_info, new)}
               /\ Reply(w, "admin_pair_device",
                        [pairing_code |-> pairing_code, req |-> req],
                        [status |-> 200, player_id |-> player_id])
          ELSE /\ Reply(w, "admin_pair_device",
                        [pairing_code |-> pairing_code, req |-> req],
                        [status |-> 500, player_id |-> 0])
               /\ UNCHANGED <<players, pairing_requests, pairings>>
    /\ UNCHANGED <<backend, users, reqSeq, now>>

\* ---- POST /api/player/check-pairing -----------------------------------------
\* the test of line 222 without the comparison of the device ids
PairingMismatch_AnyDevice(found, device_id) == found = {}

\* line 222: no Pairing row for the code, or one of another device
PairingMismatch(found, device_id) ==
    found = {} \/ (\E q \in found : q.device_id # device_id)

\* lines 216-241
player_check_pairing(w, device_id, pairing_code) ==
    /\ Ready(w)
    /\ LET call == [device_id |-> device_id, pairing_code |-> pairing_code]
           found == {q \in pairings : q.pairing_code = pairing_code}
           not_paired == [status |-> 200, paired |-> FALSE,
                          token |-> NoToken, player_id |-> 0]
       IN IF PairingMismatch(found, device_id)
          THEN Reply(w, "player_check_pairing", call, not_paired)
          ELSE \E pairing_info \in found :
               IF ~pairing_info.paired
               THEN Reply(w, "player_check_pairing", call, not_paired)
               ELSE Reply(w, "player_check_pairing", call,
                          [status |-> 200, paired |-> TRUE,
                           token |-> generate_token(device_id,
                                        pairing_info.org_id, SECRET_KEY),
                           player_id |-> pairing_info.player_id])
    /\ UNCHANGED <<backend, db, now>>

\* the device tokens check-pairing hands out (line 229)
DeviceTokens ==
    {[user_id |-> q.device_id, org_id |-> q.org_id,
      exp |-> JWT_EXPIRY_HOURS * 60, iat |-> 0, key |-> SECRET_KEY] :
        q \in {x \in pairings : x.paired}}

\* every token a client can present
Tokens == ClientTokens \cup DeviceTokens

\* ---- POST /api/player/get-content -------------------------------------------
\* lines 266-269 without the content of the player
resolve_content_DefaultOnly(player) == DEFAULT_CONTENT

\* lines 266-269: player.content_url or the placeholder
resolve_content(player) ==
    IF player.content_url = None THEN DEFAULT_CONTENT ELSE player.content_url

\* lines 249-280: the touch is one UPDATE by primary key and its commit; the
\* body is built from the row as reloaded after the commit
player_get_content(w, device_id, token) ==
    /\ Ready(w)
    /\ LET payload == verify_token(token)
           call == [device_id |-> device_id, token |-> token]
           found == {p \in players : p.device_id = device_id}
       IN IF ~payload.valid
          THEN /\ Reply(w, "player_get_content", call, [status |-> 401])
               /\ UNCHANGED players
          ELSE IF found = {}
          THEN /\ Reply(w, "player_get_content", call, [status |-> 404])
               /\ UNCHANGED players
          ELSE \E player \in found :
               /\ players' = (players \ {player}) \cup
                     {[player EXCEPT !.last_seen = now, !.status = "online"]}
               /\ Reply(w, "player_get_content", call,
                        [status |-> 200,
                         content_url |-> resolve_content(player),
                         refresh_interval |-> REFRESH_INTERVAL,
                         updated_at |-> now])
    /\ UNCHANGED <<backend, users, pairings, pairing_requests, reqSeq, now>>

\* ---- POST /api/admin/assign-content -----------------------------------------
\* the test of line 432 without the comparison of the organizations
OwnedBy_AnyOrg(found, org_id) == found # {}

\* line 432: the player exists and belongs to the caller's organization
OwnedBy(found, org_id) ==
    found # {} /\ (\A p \in found : p.org_id = org_id)

\* lines 415-438
admin_assign_content(w, token, player_id, content_url) ==
    /\ Ready(w)
    /\ LET payload == verify_token(token)
           call == [org_id |-> payload.org_id, player_id |-> player_id,
                    content_url |-> content_url]
           found == {p \in players : p.player_id = player_id}
       IN IF ~payload.valid
          THEN /\ Reply(w, "admin_assign_content", call, [status |-> 401])
               /\ UNCHANGED players
          ELSE IF ~OwnedBy(found, payload.org_id)
          THEN /\ Reply(w, "admin_assign_content", call, [status |-> 404])
               /\ UNCHANGED players
          ELSE \E player \in found :
               /\ players' = (players \ {player}) \cup
                     {[player EXCEPT !.content_url = content_url]}
               /\ Reply(w, "admin_assign_content", call, [status |-> 200])
    /\ UNCHANGED <<backend, users, pairings, pairing_requests, reqSeq, now>>

\* ---- GET /api/admin/players and GET /api/public/players ---------------------
\* the rows of a query result as a list, by primary key
RowList(rows) ==
    CHOOSE s \in [1..Cardinality(rows) -> rows] :
        \A i, j \in 1..Cardinality(rows) : i < j => s[i].player_id < s[j].player_id

\* lines 384-386 and 477-478: the query loads the rows into the session
ListPlayers(w, op, org_id, rows) ==
    IF rows = {}
    THEN Reply(w, op, [org_id |-> org_id], [status |-> 200, players |-> <<>>])
    ELSE Await(w, [pc |-> "loop", op |-> op, org_id |-> org_id,
                   todo |-> RowList(rows), expired |-> FALSE, out |-> <<>>])

\* lines 372-384
admin_list_players(w, token) ==
    /\ Ready(w)
    /\ LET payload == verify_token(token)
       IN IF ~payload.valid
          THEN Reply(w, "admin_list_players", [org_id |-> None], [status |-> 401])
          ELSE ListPlayers(w, "admin_list_players", payload.org_id,
                           {p \in players : p.org_id = payload.org_id})
    /\ UNCHANGED <<backend, db, now>>

\* lines 477-478
public_list_players(w) ==
    /\ Ready(w)
    /\ ListPlayers(w, "public_list_players", None, players)
    /\ UNCHANGED <<backend, db, now>>

\* lines 388 and 481: the liveness test of the listings
IsStale(last_seen) == now - last_seen > TEN_MINUTES

\* one iteration of the loop, lines 387-405 and 480-498.  The attributes of
\* `player` are those the query loaded, or, once a commit of this session
\* has expired them, the row as it is now.  A stale player is set offline
\* (an UPDATE only when the loaded status differs) and committed, and the
\* entry is then built from the reloaded row.  The last iteration returns.
list_players_step(w) ==
    /\ \/ Pending(w, "loop", "admin_list_players")
       \/ Pending(w, "loop", "public_list_players")
    /\ LET l == session[w]
           player == Head(l.todo)
           row == CHOOSE p \in players : p.player_id = player.player_id
           loaded == IF l.expired THEN row ELSE player
           stale == IsStale(loaded.last_seen)
           written == IF stale /\ loaded.status # "offline"
                      THEN [row EXCEPT !.status = "offline"] ELSE row
           entry == IF stale THEN written ELSE loaded
           out == Append(l.out, entry)
       IN /\ players' = (players \ {row}) \cup {written}
          /\ IF Len(l.todo) = 1
             THEN Reply(w, l.op, [org_id |-> l.org_id],
                        [status |-> 200, players |-> out])
             ELSE Await(w, [l EXCEPT !.todo = Tail(l.todo),
                                     !.expired = l.expired \/ stale,
                                     !.out = out])
    /\ UNCHANGED <<backend, users, pairings, pairing_requests, reqSeq, now>>

\* ---- GET /health ------------------------------------------------------------
\* lines 505-519
health(w) ==
    /\ Ready(w)
    /\ Reply(w, "health", [at |-> now],
             [status |-> 200,
              total |-> Cardinality(players),
              online |-> Cardinality({p \in players :
                                        p.last_seen > now - TEN_MINUTES})])
    /\ UNCHANGED <<backend, db, now>>

\* ---- after_request ----------------------------------------------------------
\* lines 112-118: the response leaves the server
after_request ==
    /\ response # NoResponse
    /\ response' = NoResponse
    /\ UNCHANGED <<backend, db, now, session>>

\* ---- the clock --------------------------------------------------------------
Tick ==
    /\ response = NoResponse
    /\ now + TickStep <= MaxTime
    /\ now' = now + TickStep
    /\ response' = NoResponse
    /\ UNCHANGED <<backend, db, session>>

\* ---- specifications ----------------------------------------------------
EmptyDb ==
    /\ backend \in Backends
    /\ players = {}
    /\ pairings = {}
    /\ pairing_requests = {}
    /\ reqSeq = 0
    /\ now = 0
    /\ session = [w \in Workers |-> Idle]
    /\ response = NoResponse

\* the deployment after db.create_all() (lines 533-538): empty tables
Init == EmptyDb /\ users = {}

NextAuth ==
    \/ after_request
    \/ \E w \in Workers, e \in Emails \cup {None}, p \in {"pw123", None} :
            register(w, e, p)
    \/ \E w \in Workers : register_commit(w)

\* account registration alone
SpecAuth == Init /\ [][NextAuth]_vars

\* two accounts are registered (a state SpecAuth reaches), nothing is paired
InitPairing ==
    /\ EmptyDb
    /\ users = {[id |-> "user-1", email |-> "alice@x.com", org_id |-> "org-1"],
                [id |-> "user-2", email |-> "bob@x.com", org_id |-> "org-2"]}

\* player ids a client can name: the existing ones and an unknown one
PlayerIds == {p.player_id : p \in players} \cup {0}

\* the pairing protocol: devices declare codes, admins pair them, devices
\* poll
Next ==
    \/ after_request
    \/ \E w \in Workers, d \in Devices \cup {None}, c \in Codes \cup {None} :
            /\ reqSeq + RegistrationsInFlight < MaxReq
            /\ register_pairing(w, d, c)
    \/ \E w \in Workers : register_pairing_commit(w)
    \/ \E w \in Workers, t \in ClientTokens, c \in Codes \cup {None} :
            admin_pair_device(w, t, c)
    \/ \E w \in Workers : admin_pair_device_flush(w)
    \/ \E w \in Workers : admin_pair_device_commit(w)
    \/ \E w \in Workers, d \in Devices, c \in Codes :
            player_check_pairing(w, d, c)
    \/ \E w \in Workers, d \in Devices, t \in Tokens :
            player_get_content(w, d, t)

Spec == InitPairing /\ [][Next]_vars

\* the admin's view of the player directory: content and listings
NextAdmin ==
    \/ \E w \in Workers, t \in ClientTokens, id \in PlayerIds, u \in Urls :
            admin_assign_content(w, t, id, u)
    \/ \E w \in Workers, t \in ClientTokens : admin_list_players(w, t)
    \/ \E w \in Workers : public_list_players(w)
    \/ \E w \in Workers : list_players_step(w)

NextAll == Next \/ NextAdmin

\* the pairing protocol together with the player directory
SpecAll == InitPairing /\ [][NextAll]_vars

\* both devices are paired, one to each organization (a state Spec reaches)
InitLive ==
    /\ backend \in Backends
    /\ users = {[id |-> "user-1", email |-> "alice@x.com", org_id |-> "org-1"],
                [id |-> "user-2", email |-> "bob@x.com", org_id |-> "org-2"]}
    /\ players =
         {[player_id |-> 1, device_id |-> "D1", org_id |-> "org-1",
           status |-> "online", last_seen |-> 0, content_url |-> None,
           pairing_code |-> "123456"],
          [player_id |-> 2, device_id |-> "D2", org_id |-> "org-2",
           status |-> "online", last_seen |-> 0, content_url |-> None,
           pairing_code |-> "654321"]}
    /\ pairings =
         {[pairing_code |-> "123456", paired |-> TRUE, player_id |-> 1,
           device_id |-> "D1", org_id |-> "org-1"],
          [pairing_code |-> "654321", paired |-> TRUE, player_id |-> 2,
           device_id |-> "D2", org_id |-> "org-2"]}
    /\ pairing_requests =
         {[id |-> 1, device_id |-> "D1", pairing_code |-> "123456",
           status |-> "paired"],
          [id |-> 2, device_id |-> "D2", pairing_code |-> "654321",
           status |-> "paired"]}
    /\ reqSeq = 2
    /\ now = 0
    /\ session = [w \in Workers |-> Idle]
    /\ response = NoResponse

NextLive ==
    \/ after_request
    \/ Tick
    \/ \E w \in Workers, d \in Devices, t \in Tokens :
            player_get_content(w, d, t)
    \/ NextAdmin
    \/ \E w \in Workers : health(w)

\* the player directory while time passes
SpecLive == InitLive /\ [][NextLive]_vars

\* ---- the life of a token ---------------------------------------------------
\* minutes a token is valid (line 94)
Validity == JWT_EXPIRY_HOURS * 60

\* the times at which the clock is looked at: the times a token is issued
\* and, for each of them, the minute before its expiry, the expiry and the
\* minute after
IssueTimes == {t \in 0..MaxTime : t % TickStep = 0}

ClockTimes ==
    {t + e : t \in IssueTimes, e \in {0, Validity - 1, Validity, Validity + 1}}

\* time passes, any amount
Elapse ==
    /\ response = NoResponse
    /\ \E t \in ClockTimes : t > now /\ now' = t
    /\ response' = NoResponse
    /\ UNCHANGED <<backend, db, session>>

\* tokens a device can hold: those check-pairing (line 229) issued for its
\* pairing at some earlier time, the same payloads signed with another key,
\* or none
HeldTokens ==
    {token_issued_at(q.device_id, q.org_id, k, at) :
        q \in {x \in pairings : x.paired},
        k \in {SECRET_KEY, "forged"},
        at \in {t \in IssueTimes : t <= now}}
    \cup {NoToken}

NextToken ==
    \/ after_request
    \/ Elapse
    \/ \E w \in Workers, d \in Devices, c \in Codes :
            player_check_pairing(w, d, c)
    \/ \E w \in Workers, d \in Devices, t \in HeldTokens :
            player_get_content(w, d, t)

\* paired devices fetch tokens and use them while time passes
SpecToken == InitLive /\ [][NextToken]_vars

\* ---- content ---------------------------------------------------------------
\* what an admin can assign: a URL, or nothing (the field is not validated)
ContentUrls == {"http://a", "http://b", None}

NextContent ==
    \/ after_request
    \/ Tick
    \/ \E w \in Workers, t \in ClientTokens, id \in PlayerIds, u \in ContentUrls :
            admin_assign_content(w, t, id, u)
    \/ \E w \in Workers, d \in Devices \cup {None}, t \in Tokens :
            player_get_content(w, d, t)

\* admins assign content to paired players, devices fetch it, time passes
SpecContent == InitLive /\ [][NextContent]_vars

\* ---- a code that is paired again ---------------------------------------------
\* device D0 declared code 123456 and an admin of org-1 paired it (a state
\* Spec reaches, with D0 for the device)
InitRepair ==
    /\ backend \in Backends
    /\ users = {[id |-> "user-1", email |-> "alice@x.com", org_id |-> "org-1"],
                [id |-> "user-2", email |-> "bob@x.com", org_id |-> "org-2"]}
    /\ players =
         {[player_id |-> 1, device_id |-> "D0", org_id |-> "org-1",
           status |-> "online", last_seen |-> 0, content_url |-> None,
           pairing_code |-> "123456"]}
    /\ pairings =
         {[pairing_code |-> "123456", paired |-> TRUE, player_id |-> 1,
           device_id |-> "D0", org_id |-> "org-1"]}
    /\ pairing_requests =
         {[id |-> 1, device_id |-> "D0", pairing_code |-> "123456",
           status |-> "paired"]}
    /\ reqSeq = 1
    /\ now = 0
    /\ session = [w \in Workers |-> Idle]
    /\ response = NoResponse

NextRepair ==
    \/ after_request
    \/ \E w \in Workers, d \in Devices, c \in Codes :
            /\ reqSeq + RegistrationsInFlight < MaxReq + 1
            /\ register_pairing(w, d, c)
    \/ \E w \in Workers : register_pairing_commit(w)
    \/ \E w \in Workers, t \in ClientTokens, c \in Codes :
            admin_pair_device(w, t, c)
    \/ \E w \in Workers : admin_pair_device_flush(w)
    \/ \E w \in Workers : admin_pair_device_commit(w)
    \/ \E w \in Workers, d \in Devices \cup {"D0"}, c \in Codes :
            player_check_pairing(w, d, c)

\* after one pairing, MaxReq more devices declare codes and are paired
SpecRepair == InitRepair /\ [][NextRepair]_vars

\* ==== properties ============================================================

\* a pair-device call that got as far as its commit
PairCommitted ==
    response.op = "admin_pair_device" /\ response.call.req # NoRequest

\* the request a pair-device call read as waiting has meanwhile been consumed
\* by another call: the row is paired and its device has another player
ConsumedByOther ==
    /\ PairCommitted
    /\ \E r \in pairing_requests :
          r.id = response.call.req.id /\ r.status = "paired"
    /\ \E p \in players :
          /\ p.device_id = response.call.req.device_id
          /\ p.pairing_code = response.call.pairing_code
          /\ p.player_id # response.resp.player_id

\* C1: of two concurrent pair-device calls for one waiting request at most
\* one creates a player, and the other ends with NotWaiting (400).
C1_LoserSeesNotWaiting ==
    ConsumedByOther => response.resp.status = 400

\* C2 as stated: at most one pair-device call with a given code ever
\* succeeds (every success leaves one Player carrying the code).
C2_OneSuccessPerCode ==
    \A p, q \in players : p.pairing_code = q.pairing_code => p = q

\* C2 amended: at most one pair-device call with code c succeeds for any one
\* device; two successes with the same code bind different devices.
C2_OneSuccessPerCodeAndDevice ==
    \A c \in Codes, d \in Devices :
        Cardinality({p \in players :
            p.pairing_code = c /\ p.device_id = d}) <= 1

\* C2 witness: two pair-device calls for the same request have both reached
\* their commit and the second one was refused
C2_Witness ==
    /\ ConsumedByOther
    /\ response.resp.status = 500

\* C3: check-pairing answers paired:false, without a token, whenever the
\* device id differs from the one recorded under the code (or none is).
C3_ForeignDeviceNotPaired ==
    response.op = "player_check_pairing" =>
        ((\A q \in pairings :
             q.pairing_code = response.call.pairing_code
                 => q.device_id # response.call.device_id)
         => (~response.resp.paired /\ response.resp.token = NoToken))

\* C3 witness: another device asks for a code that is paired
C3_Witness ==
    /\ response.op = "player_check_pairing"
    /\ ~response.resp.paired
    /\ \E q \in pairings :
          /\ q.pairing_code = response.call.pairing_code
          /\ q.paired
          /\ q.device_id # response.call.device_id

\* the row of players' that has the primary key of p
After(p) == CHOOSE q \in players' : q.player_id = p.player_id

\* C4: assign-content changes the content of a player of the token's
\* organization only, the admin listing returns and writes back players of
\* the token's organization only.
C4_TenantIsolation ==
    [][ /\ \A p \in players :
            After(p).content_url # p.content_url =>
                /\ response'.op = "admin_assign_content"
                /\ response'.call.org_id = p.org_id
        /\ \A w \in Workers :
            (/\ session[w].pc = "loop"
             /\ session[w].op = "admin_list_players"
             /\ session'[w] # session[w]) =>
                \A p \in players :
                    After(p) # p => p.org_id = session[w].org_id
        /\ (response'.op = "admin_list_players" /\ response'.resp.status = 200) =>
                \A i \in 1..Len(response'.resp.players) :
                    response'.resp.players[i].org_id = response'.call.org_id
      ]_vars

\* C4 witness: an admin names a player of another organization and gets 404
C4_Witness ==
    /\ response.op = "admin_assign_content"
    /\ response.resp.status = 404
    /\ \E p \in players :
          /\ p.player_id = response.call.player_id
          /\ p.org_id # response.call.org_id
          /\ p.content_url = None

\* C5: no two players share a device id, and the org id of a player never
\* changes.
C5_DeviceUniqueOrgImmutable ==
    /\ [](\A p, q \in players : p.device_id = q.device_id => p = q)
    /\ [][\A p \in players :
             \E q \in players' :
                 q.player_id = p.player_id /\ q.org_id = p.org_id]_vars

\* C5 witness: a second player for a device that has one was refused
C5_Witness ==
    /\ PairCommitted
    /\ response.resp.status = 500
    /\ \E p \in players : p.device_id = response.call.req.device_id
    /\ \E p \in players : p.content_url # None

\* C6: at most one waiting request per pairing code and per device id.
C6_OneWaitingPerKey ==
    \A r, q \in pairing_requests :
        (/\ r.status = "waiting" /\ q.status = "waiting"
         /\ (r.pairing_code = q.pairing_code \/ r.device_id = q.device_id))
        => r = q

\* C7 as stated: once a request for code c is paired, every later state has
\* a paired request for c.
C7_PairedIsTerminal ==
    [][\A c \in Codes :
          (\E r \in pairing_requests : r.pairing_code = c /\ r.status = "paired")
          => (\E r \in pairing_requests' :
                 r.pairing_code = c /\ r.status = "paired")]_vars

\* C7 amended: a paired request is never set back to waiting; it stays as
\* it is until a register-pairing that names its code or its device deletes
\* it.
C7_PairedUntilRedeclared ==
    [][\A r \in pairing_requests :
          (r.status = "paired" /\ r \notin pairing_requests') =>
              /\ response'.op = "register_pairing"
              /\ \/ response'.call.device_id = r.device_id
                 \/ response'.call.pairing_code = r.pairing_code]_vars

\* C7 witness: a code or device that was paired is declared again
C7_Witness ==
    /\ response.op = "register_pairing"
    /\ response.resp.status = 201
    /\ \E p \in players :
          \/ p.pairing_code = response.call.pairing_code
          \/ p.device_id = response.call.device_id
    /\ \E r \in pairing_requests : r.status = "paired"

\* C8: no committed state has a paired PairingRequest or a paired Pairing
\* record for a device that has no Player.
C8_PairedHasPlayer ==
    /\ \A r \in pairing_requests :
          r.status = "paired" => \E p \in players : p.device_id = r.device_id
    /\ \A q \in pairings :
          q.paired => \E p \in players : p.device_id = q.device_id

\* C9: pair-device for a waiting request whose device already owns a player
\* fails with DuplicateDevice (Conflict, 409) and creates no player.
C9_DuplicateDeviceReported ==
    (/\ PairCommitted
     /\ \E p \in players :
           /\ p.device_id = response.call.req.device_id
           /\ p.pairing_code # response.call.pairing_code)
    => (response.resp.status = 409 /\ response.resp.player_id = 0)

\* C10: email is unique across users, and a valid registration with an
\* email that another registration uses fails with Conflict (409).
C10_DuplicateEmailConflict ==
    /\ \A u, v \in users : u.email = v.email => u = v
    /\ (/\ response.op = "register"
        /\ response.call.email # None /\ response.call.password # None
        /\ \E u \in users :
              u.email = response.call.email /\ u.id # response.resp.user_id)
       => response.resp.status = 409

\* C11: a token issued for subject u and organization o verifies, with
\* claims u and o, at every time before issue time + 720 hours and is
\* refused at every time after it; a token signed with another key is
\* always refused.  Checked on verify_token, on the token check-pairing
\* hands out and on the answer of get-content.
C11_TokenRoundTrip ==
    /\ \A t \in HeldTokens \ {NoToken} :
          /\ (t.key = SECRET_KEY /\ now < t.iat + Validity) =>
                verify_token(t) = [valid |-> TRUE, user_id |-> t.user_id,
                                   org_id |-> t.org_id]
          /\ (t.key # SECRET_KEY \/ now > t.iat + Validity) =>
                ~verify_token(t).valid
    /\ (response.op = "player_check_pairing" /\ response.resp.paired) =>
          /\ verify_token(response.resp.token).valid
          /\ verify_token(response.resp.token).user_id = response.call.device_id
          /\ \E q \in pairings :
                /\ q.pairing_code = response.call.pairing_code
                /\ verify_token(response.resp.token).org_id = q.org_id
    /\ response.op = "player_get_content" =>
          LET t == response.call.token
          IN /\ (t.key = SECRET_KEY /\ now < t.iat + Validity) =>
                   response.resp.status # 401
             /\ (t.key # SECRET_KEY \/ now > t.iat + Validity) =>
                   response.resp.status = 401

\* C11 witness: a token the server issued is presented after its expiry
\* and refused
C11_Witness ==
    /\ response.op = "player_get_content"
    /\ response.call.token.key = SECRET_KEY
    /\ response.call.token.iat > 0
    /\ now > response.call.token.iat + Validity
    /\ response.resp.status = 401

\* a listing (admin or public) has answered with at least one player
Listed ==
    /\ response.op \in {"admin_list_players", "public_list_players"}
    /\ response.resp.status = 200
    /\ Len(response.resp.players) > 0

\* the entry the listing built in its last iteration, i.e. at time `now`
LastEntry == response.resp.players[Len(response.resp.players)]

\* C12: the status a listing reports for a player is online if and only if
\* now - last_seen <= 10 minutes, whatever status is stored.
C12_StatusFromLastSeen ==
    Listed =>
        (LastEntry.status = "online" <=> now - LastEntry.last_seen <= TEN_MINUTES)

\* lines 388-396: the status a listing run now reports for player p
ListedStatus(p) == IF IsStale(p.last_seen) THEN "offline" ELSE p.status

\* C13: /health counts a player as online if and only if the listings
\* report it online, also when now - last_seen is exactly 10 minutes.
C13_HealthAgreesWithListings ==
    response.op = "health" =>
        response.resp.online =
            Cardinality({p \in players : ListedStatus(p) = "online"})

\* the players pair-device created with code c
PairedWith(c) == {p \in players : p.pairing_code = c}

\* the player the latest successful pair-device with code c created
LatestPaired(c) ==
    CHOOSE p \in PairedWith(c) : \A q \in PairedWith(c) : q.player_id <= p.player_id

\* C14: when device d has registered code c and an admin of organization o
\* has then paired c, creating player p for d, a check-pairing(d, c) that
\* follows (before the code is paired again) answers paired:true with the id
\* of p and a token that verifies with subject d and organization o.
C14_PairingRoundTrip ==
    (/\ response.op = "player_check_pairing"
     /\ PairedWith(response.call.pairing_code) # {}
     /\ LatestPaired(response.call.pairing_code).device_id = response.call.device_id)
    => LET p == LatestPaired(response.call.pairing_code)
       IN /\ response.resp.paired
          /\ response.resp.player_id = p.player_id
          /\ verify_token(response.resp.token) =
                [valid |-> TRUE, user_id |-> response.call.device_id,
                 org_id |-> p.org_id]

\* C15: get-content with a valid token, for a device that owns a player,
\* touches the player and returns the content URL of the latest successful
\* assign-content on that player (the placeholder when there is none),
\* with refresh interval 300; with an invalid token it answers 401 and with
\* an unknown device 404, and leaves every player as it was.
C15_ContentResolution ==
    /\ [](response.op = "player_get_content" =>
            LET owned == {p \in players : p.device_id = response.call.device_id}
            IN IF ~verify_token(response.call.token).valid
               THEN response.resp.status = 401
               ELSE IF owned = {}
               THEN response.resp.status = 404
               ELSE /\ response.resp.status = 200
                    /\ response.resp.refresh_interval = 300
                    /\ \A p \in owned :
                          /\ p.last_seen = now /\ p.status = "online"
                          /\ response.resp.content_url =
                                IF p.content_url = None
                                THEN DEFAULT_CONTENT ELSE p.content_url)
    /\ [][ /\ \A p \in players :
               After(p).content_url # p.content_url =>
                   /\ response'.op = "admin_assign_content"
                   /\ response'.resp.status = 200
                   /\ response'.call.player_id = p.player_id
           /\ (response'.op = "admin_assign_content" /\ response'.resp.status = 200) =>
                   \E p \in players' :
                       /\ p.player_id = response'.call.player_id
                       /\ p.content_url = response'.call.content_url
           /\ (response'.op = "player_get_content" /\ response'.resp.status # 200) =>
                   players' = players
         ]_vars

\* C15 witness: a device fetches the URL an admin assigned in place of an
\* earlier one
C15_Witness ==
    /\ response.op = "player_get_content"
    /\ response.resp.status = 200
    /\ response.resp.content_url = "http://b"
    /\ \E p \in players : p.content_url = "http://a"
    /\ \E p \in players : p.device_id = response.call.device_id /\ p.last_seen > 0

\* no listing is between its query and its last commit
NoListingInFlight == \A w \in Workers : session[w].pc # "loop"

\* C16: under every interleaving of a listing with get-content for the same
\* player, once both have committed the player is not stored as offline
\* while its last_seen is within the last 10 minutes.
C16_NoOfflineWhileFresh ==
    NoListingInFlight =>
        \A p \in players :
            p.status = "offline" => now - p.last_seen > TEN_MINUTES

\* C17: when register-pairing(d, c) has committed, the only request with
\* device id d or code c is the new waiting request (d, c).
C17_LastDeclarationWins ==
    (response.op = "register_pairing" /\ response.resp.status = 201) =>
        LET sharing == {r \in pairing_requests :
                           \/ r.device_id = response.call.device_id
                           \/ r.pairing_code = response.call.pairing_code}
        IN /\ Cardinality(sharing) = 1
           /\ \A r \in sharing :
                 /\ r.device_id = response.call.device_id
                 /\ r.pairing_code = response.call.pairing_code
                 /\ r.status = "waiting"

\* C18: get-content reads and touches the player of device_id only for a
\* token issued to that device and to the organization of the player.
C18_TokenDeviceScoped ==
    (response.op = "player_get_content" /\ response.resp.status = 200) =>
        /\ response.call.token.user_id = response.call.device_id
        /\ \A p \in players :
              p.device_id = response.call.device_id =>
                  p.org_id = response.call.token.org_id

\* C19: every legacy Pairing record with paired = true names the player id,
\* device id and org id of one existing Player, so that a check-pairing(d, c)
\* that answers paired:true returns the player bound to d and a token for
\* the organization that owns it.
C19_PairingNamesPlayer ==
    /\ \A q \in pairings :
          q.paired =>
              Cardinality({p \in players :
                  /\ p.player_id = q.player_id
                  /\ p.device_id = q.device_id
                  /\ p.org_id = q.org_id}) = 1
    /\ (response.op = "player_check_pairing" /\ response.resp.paired) =>
          \E p \in players :
              /\ p.player_id = response.resp.player_id
              /\ p.device_id = response.call.device_id
              /\ p.org_id = response.resp.token.org_id

\* C20 as stated: once pair-device has succeeded for device d with code c,
\* every later check-pairing(d, c) answers paired:true.
C20_PairedStaysPaired ==
    (/\ response.op = "player_check_pairing"
     /\ \E p \in players :
           /\ p.device_id = response.call.device_id
           /\ p.pairing_code = response.call.pairing_code)
    => response.resp.paired

\* C20 amended: once pair-device has succeeded for device d with code c,
\* check-pairing(d, c) answers paired:true, with the id of the player of d,
\* for as long as no later pair-device with code c has succeeded; what
\* devices declare in the meantime does not matter.
C20_PairedUntilCodeRepaired ==
    response.op = "player_check_pairing" =>
        \A p \in PairedWith(response.call.pairing_code) :
            (/\ p.device_id = response.call.device_id
             /\ \A q \in PairedWith(response.call.pairing_code) :
                   q.player_id <= p.player_id)
            => (response.resp.paired /\ response.resp.player_id = p.player_id)

\* C20 witness: a paired device polls with its code after another device
\* has declared the same code
C20_Witness ==
    /\ response.op = "player_check_pairing"
    /\ response.resp.paired
    /\ \E r \in pairing_requests :
          /\ r.pairing_code = response.call.pairing_code
          /\ r.device_id # response.call.device_id
          /\ r.status = "waiting"
====
